---- MODULE Spec2Model ----
(***************************************************************************)
(* Model of the m4rs macro processor: the token model (src/src/ast.rs),    *)
(* the parser's token shaping (src/src/parser.rs), the macro registry and  *)
(* the recursive expander (src/src/processor.rs).                          *)
(*                                                                         *)
(* Text is a TLA+ string; a token is a record tagged by "type".  The       *)
(* expander runs step by step: one action per method entry and per return  *)
(* into a suspended caller.                                                 *)
(***************************************************************************)
EXTENDS Integers, Sequences, FiniteSets, TLC

(***************************************************************************)
(* Token model (ast.rs)                                                    *)
(***************************************************************************)
MacroCall(name, args) == [type |-> "MacroCall", name |-> name, args |-> args]

Positional(n) == [type |-> "Positional", n |-> n]

Literal(s) == [type |-> "Literal", s |-> s]

Group(lexeme, tokens) == [type |-> "Group", lexeme |-> lexeme, tokens |-> tokens]

(***************************************************************************)
(* Character classes and string helpers                                    *)
(***************************************************************************)
CharAt(s, i) == SubSeq(s, i, i)

\* the quote delimiters of a quoted group
OpenQuote == SubSeq("`'", 1, 1)

CloseQuote == SubSeq("`'", 2, 2)

WhiteChars == {" ", "\t", "\n"}

Digits == {"0", "1", "2", "3", "4", "5", "6", "7", "8", "9"}

IdentStart ==
  {"a", "b", "c", "d", "e", "f", "g", "h", "i", "j", "k", "l", "m",
   "n", "o", "p", "q", "r", "s", "t", "u", "v", "w", "x", "y", "z",
   "A", "B", "C", "D", "E", "F", "G", "H", "I", "J", "K", "L", "M",
   "N", "O", "P", "Q", "R", "S", "T", "U", "V", "W", "X", "Y", "Z", "_"}

IdentChars == IdentStart \cup Digits

DigitVal(c) ==
  CASE c = "0" -> 0 [] c = "1" -> 1 [] c = "2" -> 2 [] c = "3" -> 3
    [] c = "4" -> 4 [] c = "5" -> 5 [] c = "6" -> 6 [] c = "7" -> 7
    [] c = "8" -> 8 [] OTHER -> 9

RECURSIVE TrimStart(_)
TrimStart(s) ==
  IF Len(s) > 0 /\ CharAt(s, 1) \in WhiteChars THEN TrimStart(Tail(s)) ELSE s

RECURSIVE TrimEnd(_)
TrimEnd(s) ==
  IF Len(s) > 0 /\ CharAt(s, Len(s)) \in WhiteChars
  THEN TrimEnd(SubSeq(s, 1, Len(s) - 1))
  ELSE s

\* str::trim
trim(s) == TrimEnd(TrimStart(s))

starts_with(s, c) == Len(s) > 0 /\ CharAt(s, 1) = c

ends_with(s, c) == Len(s) > 0 /\ CharAt(s, Len(s)) = c

\* lexeme[1..lexeme.len() - 1]
StripQuotes(lexeme) == SubSeq(lexeme, 2, Len(lexeme) - 1)

\* no group counts as quoted
IsQuoted_never(lexeme) == FALSE

\* the lexeme starts with the open quote and ends with the close quote
IsQuoted(lexeme) == starts_with(lexeme, OpenQuote) /\ ends_with(lexeme, CloseQuote)

RECURSIVE join(_, _)
join(strs, sep) ==
  IF Len(strs) = 0 THEN ""
  ELSE IF Len(strs) = 1 THEN strs[1]
  ELSE strs[1] \o sep \o join(Tail(strs), sep)

(***************************************************************************)
(* Parser.  parser.rs shapes the pairs of the grammar file m4.pest into    *)
(* tokens; the grammar file itself is not part of the sources, so the      *)
(* lexical rules below follow the parser's tests and the specification:    *)
(* identifiers, `$' digits, balanced `...' groups, calls with a            *)
(* parenthesised comma separated argument list, white space and other      *)
(* text as literals.  Line breaks (dnl's line suppression) are left out.   *)
(***************************************************************************)
ParseFail == [ok |-> FALSE, tokens |-> <<>>, pos |-> 0]

RECURSIVE RunEnd(_, _, _)
\* last index of the maximal run of characters of `class' that starts at pos
RunEnd(s, pos, class) ==
  IF pos + 1 <= Len(s) /\ CharAt(s, pos + 1) \in class
  THEN RunEnd(s, pos + 1, class)
  ELSE pos

RECURSIVE OtherEnd(_, _)
\* last index of a run of characters that start no other kind of token
OtherEnd(s, pos) ==
  IF pos + 1 <= Len(s)
     /\ CharAt(s, pos + 1) \notin
          (IdentStart \cup WhiteChars \cup {OpenQuote, CloseQuote, "$", "(", ")", ","})
  THEN OtherEnd(s, pos + 1)
  ELSE pos

RECURSIVE SkipWhite(_, _)
SkipWhite(s, pos) ==
  IF pos <= Len(s) /\ CharAt(s, pos) \in WhiteChars
  THEN SkipWhite(s, pos + 1)
  ELSE pos

RECURSIVE MatchQuote(_, _, _)
\* index of the close quote matching an open quote, nesting counted; 0 if none
MatchQuote(s, pos, level) ==
  IF pos > Len(s) THEN 0
  ELSE IF CharAt(s, pos) = OpenQuote THEN MatchQuote(s, pos + 1, level + 1)
  ELSE IF CharAt(s, pos) = CloseQuote
       THEN IF level = 1 THEN pos ELSE MatchQuote(s, pos + 1, level - 1)
  ELSE MatchQuote(s, pos + 1, level)

RECURSIVE NumVal(_)
\* pair.as_str()[1..].parse()
NumVal(ds) ==
  IF Len(ds) = 0 THEN 0
  ELSE 10 * NumVal(SubSeq(ds, 1, Len(ds) - 1)) + DigitVal(CharAt(ds, Len(ds)))

\* parse_argument: one token is passed through, several are wrapped in a Group
parse_argument(lexeme, tokens) ==
  IF Len(tokens) = 1 THEN tokens[1] ELSE Group(lexeme, tokens)

RECURSIVE ParseSeq(_, _, _)
RECURSIVE parse_token(_, _)
RECURSIVE parse_arguments(_, _)
RECURSIVE ParseArgList(_, _)

\* parse_group: the content between the delimiters is parsed again;
\* a content that does not parse drops the group (filter_map on None)
parse_group(lexeme) ==
  LET content == StripQuotes(lexeme)
      inner == ParseSeq(content, 1, FALSE)
  IN IF inner.ok THEN <<Group(lexeme, inner.tokens)>> ELSE <<>>

\* parse_macrocall: the name, then the arguments when an argument list follows
parse_macrocall(s, pos) ==
  LET e == RunEnd(s, pos, IdentChars)
      name == SubSeq(s, pos, e)
      a == parse_arguments(s, e + 1)
  IN IF e + 1 <= Len(s) /\ CharAt(s, e + 1) = "(" /\ a.ok
     THEN [ok |-> TRUE, tokens |-> <<MacroCall(name, a.tokens)>>, pos |-> a.pos]
     ELSE [ok |-> TRUE, tokens |-> <<MacroCall(name, <<>>)>>, pos |-> e + 1]

\* one token at pos: [ok, tokens (none or one), pos after it]
parse_token(s, pos) ==
  LET c == CharAt(s, pos) IN
  IF c = "$" /\ pos + 1 <= Len(s) /\ CharAt(s, pos + 1) \in Digits
  THEN LET e == RunEnd(s, pos + 1, Digits)
       IN [ok |-> TRUE,
           tokens |-> <<Positional(NumVal(SubSeq(s, pos + 1, e)))>>,
           pos |-> e + 1]
  ELSE IF c \in IdentStart THEN parse_macrocall(s, pos)
  ELSE IF c = OpenQuote
       THEN LET m == MatchQuote(s, pos + 1, 1)
            IN IF m = 0 THEN ParseFail
               ELSE [ok |-> TRUE,
                     tokens |-> parse_group(SubSeq(s, pos, m)),
                     pos |-> m + 1]
  ELSE IF c \in WhiteChars \cup {CloseQuote, "$", "(", ")", ","}
       THEN [ok |-> TRUE, tokens |-> <<Literal(c)>>, pos |-> pos + 1]
  ELSE LET e == OtherEnd(s, pos)
       IN [ok |-> TRUE, tokens |-> <<Literal(SubSeq(s, pos, e))>>, pos |-> e + 1]

\* tokens from pos to the end of the text, or, inside an argument list,
\* to the next separator
ParseSeq(s, pos, inArg) ==
  IF pos > Len(s) THEN [ok |-> TRUE, tokens |-> <<>>, pos |-> pos]
  ELSE IF inArg /\ CharAt(s, pos) \in {",", ")"}
       THEN [ok |-> TRUE, tokens |-> <<>>, pos |-> pos]
  ELSE LET t == parse_token(s, pos) IN
       IF ~t.ok THEN ParseFail
       ELSE LET r == ParseSeq(s, t.pos, inArg) IN
            IF ~r.ok THEN ParseFail
            ELSE [ok |-> TRUE, tokens |-> t.tokens \o r.tokens, pos |-> r.pos]

\* the arguments from pos on, pos being the start of an argument
ParseArgList(s, pos) ==
  LET r == ParseSeq(s, pos, TRUE)
      raw == SubSeq(s, pos, r.pos - 1)
      lexeme == TrimEnd(raw)
      tokens == SubSeq(r.tokens, 1, Len(r.tokens) - (Len(raw) - Len(lexeme)))
      rest == ParseArgList(s, SkipWhite(s, r.pos + 1))
  IN IF ~r.ok \/ r.pos > Len(s) \/ Len(tokens) = 0 THEN ParseFail
     ELSE IF CharAt(s, r.pos) = ")"
          THEN [ok |-> TRUE,
                tokens |-> <<parse_argument(lexeme, tokens)>>,
                pos |-> r.pos + 1]
     ELSE IF ~rest.ok THEN ParseFail
     ELSE [ok |-> TRUE,
           tokens |-> <<parse_argument(lexeme, tokens)>> \o rest.tokens,
           pos |-> rest.pos]

\* parse_arguments: s[pos] is the open parenthesis
parse_arguments(s, pos) ==
  LET p == SkipWhite(s, pos + 1) IN
  IF pos > Len(s) THEN ParseFail
  ELSE IF p <= Len(s) /\ CharAt(s, p) = ")"
       THEN [ok |-> TRUE, tokens |-> <<>>, pos |-> p + 1]
  ELSE ParseArgList(s, p)

\* M4Parser::parse_input
parse_input(text) ==
  LET r == ParseSeq(text, 1, FALSE)
  IN [ok |-> r.ok, tokens |-> r.tokens]

(***************************************************************************)
(* Macro registry (processor.rs): a map from names to raw body tokens,     *)
(* modelled as a function whose domain is the set of defined names.        *)
(***************************************************************************)
\* MacroRegistry::new
EmptyRegistry == [k \in {} |-> <<>>]

\* MacroRegistry::define: HashMap::insert, an earlier entry is replaced
define(reg, name, body) ==
  [k \in DOMAIN reg \cup {name} |-> IF k = name THEN body ELSE reg[k]]

\* MacroRegistry::is_defined
is_defined(reg, name) == name \in DOMAIN reg

(***************************************************************************)
(* Expander (processor.rs).  The recursive methods of the expander are     *)
(* run as a machine: ctl is the method being entered (or the string being  *)
(* returned) and stack holds, innermost first, the callers waiting for a   *)
(* string.  An error leaves through every caller (the ? operator), so it   *)
(* ends the run at once.                                                   *)
(***************************************************************************)
VARIABLES
  registry,  \* the registry of the expander at work (Expander::registry); between calls, the caller's registry
  ctl,       \* the method being entered, the string being returned, or the result
  stack,     \* the suspended callers, innermost first
  api,       \* the public call in progress or completed: its input and the registry it started from
  steps,     \* the steps the call in progress has taken
  reader     \* the ExpandingReader, once one is constructed, and what its reads returned

vars == <<registry, ctl, stack, api, steps, reader>>

\* Expander::new: max_depth
max_depth == 100

DepthExceeded == "Maximum expansion depth exceeded"

ParseError == "parse error"

Builtins == {"define", "ifelse", "ifdef", "dnl"}

\* the argument strings indexed from 0
positional_from_zero(n, args) == IF n >= 0 /\ n < Len(args) THEN args[n + 1] ELSE ""

\* the n-th argument string, empty when n is 0 or out of range
positional(n, args) == IF n > 0 /\ n <= Len(args) THEN args[n] ELSE ""

RECURSIVE extract_text(_, _)
RECURSIVE ExtractTextAll(_, _)
\* the for loop of extract_text over the tokens of a group
ExtractTextAll(tokens, parent_args) ==
  IF Len(tokens) = 0 THEN ""
  ELSE extract_text(Head(tokens), parent_args)
         \o ExtractTextAll(Tail(tokens), parent_args)

\* Expander::extract_text: the text of a token, nothing is expanded
extract_text(token, parent_args) ==
  CASE token.type = "Literal" -> token.s
    [] token.type = "Positional" -> positional(token.n, parent_args)
    [] token.type = "Group" -> ExtractTextAll(token.tokens, parent_args)
    [] OTHER -> IF Len(token.args) = 0 THEN token.name ELSE ""

\* the argument itself is stored, a group is not opened
extract_body_tokens_whole(token) == <<token>>

\* Expander::extract_body_tokens: the raw tokens stored by define
extract_body_tokens(token) ==
  IF token.type = "Group" THEN token.tokens ELSE <<token>>

\* no depth is too deep
depth_unguarded(depth) == FALSE

\* the limit itself is too deep
depth_at_limit(depth) == depth >= max_depth

\* the depth guard of expand_tokens_with_depth and of rescan
depth_exceeded(depth) == depth > max_depth

\* the name alone, the arguments are dropped
unknown_macro_bare(name, expanded_args) == name

\* the text of a call to a name the registry does not hold
unknown_macro(name, expanded_args) ==
  IF Len(expanded_args) = 0 THEN name
  ELSE name \o "(" \o join(expanded_args, ", ") \o ")"

\* the strings compared as they are
ifelse_equal_untrimmed(a, b) == a = b

\* the comparison of expand_ifelse
ifelse_equal(a, b) == trim(a) = trim(b)

\* the text of the name argument as it is
ifdef_name_untrimmed(arg, parent_args) == extract_text(arg, parent_args)

\* the name expand_ifdef looks up: the text of the argument, trimmed
ifdef_name(arg, parent_args) == trim(extract_text(arg, parent_args))

(* control states *)
Idle == [mode |-> "idle"]

Tokens(tokens, args, depth) ==
  [mode |-> "tokens", tokens |-> tokens, args |-> args, depth |-> depth]

Token(token, args, depth) ==
  [mode |-> "token", token |-> token, args |-> args, depth |-> depth]

Call(call, args, depth) ==
  [mode |-> "call", call |-> call, args |-> args, depth |-> depth]

Argument(arg, args, depth) ==
  [mode |-> "argument", token |-> arg, args |-> args, depth |-> depth]

Ret(out) == [mode |-> "ret", out |-> out]

Done(ok, out) == [mode |-> "done", ok |-> ok, out |-> out]

Running == ctl.mode \notin {"idle", "done"}

\* a public call has not returned to its caller yet
Busy == Running \/ api.op \in {"load", "read"}

Returning(kind) == ctl.mode = "ret" /\ Len(stack) > 0 /\ Head(stack).k = kind

Push(frame) == <<frame>> \o stack

\* the longest run followed; no run of the expander is cut short by it
MaxSteps == 1200

\* one step of the call in progress
Tick == steps < MaxSteps /\ steps' = steps + 1 /\ UNCHANGED reader

\* Err(..)? in every caller: the run ends, the callers are dropped
Fail(msg) == ctl' = Done(FALSE, msg) /\ stack' = <<>>

(***************************************************************************)
(* expand_tokens_with_depth                                                *)
(***************************************************************************)
\* entry: the depth guard, then the first token of the loop
ExpandTokensWithDepth ==
  /\ Tick
  /\ ctl.mode = "tokens"
  /\ IF depth_exceeded(ctl.depth) THEN Fail(DepthExceeded)
     ELSE IF Len(ctl.tokens) = 0 THEN ctl' = Ret("") /\ stack' = stack
     ELSE /\ ctl' = Token(Head(ctl.tokens), ctl.args, ctl.depth)
          /\ stack' = Push([k |-> "tokens", rest |-> Tail(ctl.tokens),
                            args |-> ctl.args, depth |-> ctl.depth,
                            result |-> ""])
  /\ UNCHANGED <<registry, api>>

\* result.push_str(..) and the next token, or Ok(result) after the last
TokensNext ==
  /\ Tick
  /\ Returning("tokens")
  /\ LET f == Head(stack)
         result == f.result \o ctl.out
     IN IF Len(f.rest) = 0
        THEN ctl' = Ret(result) /\ stack' = Tail(stack)
        ELSE /\ ctl' = Token(Head(f.rest), f.args, f.depth)
             /\ stack' = <<[f EXCEPT !.rest = Tail(f.rest), !.result = result]>>
                           \o Tail(stack)
  /\ UNCHANGED <<registry, api>>

(***************************************************************************)
(* expand_token                                                            *)
(***************************************************************************)
ExpandTokenMacroCall ==
  /\ Tick
  /\ ctl.mode = "token" /\ ctl.token.type = "MacroCall"
  /\ ctl' = Call(ctl.token, ctl.args, ctl.depth)
  /\ UNCHANGED <<registry, stack, api>>

ExpandTokenPositional ==
  /\ Tick
  /\ ctl.mode = "token" /\ ctl.token.type = "Positional"
  /\ ctl' = Ret(positional(ctl.token.n, ctl.args))
  /\ UNCHANGED <<registry, stack, api>>

ExpandTokenLiteral ==
  /\ Tick
  /\ ctl.mode = "token" /\ ctl.token.type = "Literal"
  /\ ctl' = Ret(ctl.token.s)
  /\ UNCHANGED <<registry, stack, api>>

\* a quoted group gives its content, its tokens are not expanded
ExpandTokenGroup ==
  /\ Tick
  /\ ctl.mode = "token" /\ ctl.token.type = "Group"
  /\ IF IsQuoted(ctl.token.lexeme)
     THEN ctl' = Ret(StripQuotes(ctl.token.lexeme))
     ELSE ctl' = Tokens(ctl.token.tokens, ctl.args, ctl.depth)
  /\ UNCHANGED <<registry, stack, api>>

(***************************************************************************)
(* expand_macro_call: define                                               *)
(***************************************************************************)
\* a single argument is expanded as well, and its text is the output
ExpandDefine_expands_one ==
  /\ Tick
  /\ ctl.mode = "call" /\ ctl.call.name = "define"
  /\ IF Len(ctl.call.args) >= 2
     THEN /\ ctl' = Token(ctl.call.args[1], ctl.args, ctl.depth)
          /\ stack' = Push([k |-> "define", call |-> ctl.call])
     ELSE IF Len(ctl.call.args) = 1
          THEN /\ ctl' = Token(ctl.call.args[1], ctl.args, ctl.depth)
               /\ stack' = Push([k |-> "trim"])
     ELSE ctl' = Ret("") /\ stack' = stack
  /\ UNCHANGED <<registry, api>>

\* with two arguments or more the name is expanded first
ExpandDefine ==
  /\ Tick
  /\ ctl.mode = "call" /\ ctl.call.name = "define"
  /\ IF Len(ctl.call.args) >= 2
     THEN /\ ctl' = Token(ctl.call.args[1], ctl.args, ctl.depth)
          /\ stack' = Push([k |-> "define", call |-> ctl.call])
     ELSE ctl' = Ret("") /\ stack' = stack
  /\ UNCHANGED <<registry, api>>

\* the body is resolved when it is stored: a call without arguments of a
\* defined macro is replaced by the tokens that macro holds
DefineStore_resolved ==
  /\ Tick
  /\ Returning("define")
  /\ LET RECURSIVE Resolve(_)
         Resolve(tokens) ==
           IF Len(tokens) = 0 THEN <<>>
           ELSE LET t == Head(tokens) IN
                (IF t.type = "MacroCall" /\ Len(t.args) = 0
                    /\ is_defined(registry, t.name)
                 THEN registry[t.name] ELSE <<t>>) \o Resolve(Tail(tokens))
     IN registry' = define(registry, trim(ctl.out),
                           Resolve(extract_body_tokens(Head(stack).call.args[2])))
  /\ ctl' = Ret("")
  /\ stack' = Tail(stack)
  /\ UNCHANGED api

\* the expanded name is trimmed and the raw body stored under it
DefineStore ==
  /\ Tick
  /\ Returning("define")
  /\ registry' = define(registry, trim(ctl.out),
                        extract_body_tokens(Head(stack).call.args[2]))
  /\ ctl' = Ret("")
  /\ stack' = Tail(stack)
  /\ UNCHANGED api

(***************************************************************************)
(* expand_ifelse                                                           *)
(***************************************************************************)
\* the head of the while loop at 0-based index i, and the else clause after it
IfElseAt(args, i, parent_args, depth, rest) ==
  IF i + 2 < Len(args)
  THEN /\ ctl' = Token(args[i + 1], parent_args, depth)
       /\ stack' = <<[k |-> "ifelse_a", args |-> args, i |-> i,
                      parent_args |-> parent_args, depth |-> depth]>> \o rest
  ELSE IF i < Len(args)
       THEN /\ ctl' = Token(args[i + 1], parent_args, depth)
            /\ stack' = <<[k |-> "trim"]>> \o rest
  ELSE ctl' = Ret("") /\ stack' = rest

ExpandIfelse ==
  /\ Tick
  /\ ctl.mode = "call" /\ ctl.call.name = "ifelse"
  /\ IfElseAt(ctl.call.args, 0, ctl.args, ctl.depth, stack)
  /\ UNCHANGED <<registry, api>>

\* a is expanded, b is next
IfelseFirst ==
  /\ Tick
  /\ Returning("ifelse_a")
  /\ LET f == Head(stack) IN
     /\ ctl' = Token(f.args[f.i + 2], f.parent_args, f.depth)
     /\ stack' = <<[k |-> "ifelse_b", args |-> f.args, i |-> f.i,
                    parent_args |-> f.parent_args, depth |-> f.depth,
                    a |-> ctl.out]>> \o Tail(stack)
  /\ UNCHANGED <<registry, api>>

\* b is expanded: on equality the third member, otherwise the next triple
IfelseSecond ==
  /\ Tick
  /\ Returning("ifelse_b")
  /\ LET f == Head(stack) IN
     IF ifelse_equal(f.a, ctl.out)
     THEN /\ ctl' = Token(f.args[f.i + 3], f.parent_args, f.depth)
          /\ stack' = <<[k |-> "trim"]>> \o Tail(stack)
     ELSE IfElseAt(f.args, f.i + 3, f.parent_args, f.depth, Tail(stack))
  /\ UNCHANGED <<registry, api>>

\* Ok(result.trim().to_string()) of expand_ifelse and expand_ifdef
TrimResult ==
  /\ Tick
  /\ Returning("trim")
  /\ ctl' = Ret(trim(ctl.out))
  /\ stack' = Tail(stack)
  /\ UNCHANGED <<registry, api>>

(***************************************************************************)
(* expand_ifdef                                                            *)
(***************************************************************************)
ExpandIfdef ==
  /\ Tick
  /\ ctl.mode = "call" /\ ctl.call.name = "ifdef"
  /\ LET args == ctl.call.args
         name == ifdef_name(args[1], ctl.args)
     IN IF Len(args) = 0 THEN ctl' = Ret("") /\ stack' = stack
        ELSE IF is_defined(registry, name)
             THEN IF Len(args) > 1
                  THEN /\ ctl' = Token(args[2], ctl.args, ctl.depth)
                       /\ stack' = Push([k |-> "trim"])
                  ELSE ctl' = Ret("") /\ stack' = stack
        ELSE IF Len(args) > 2
             THEN /\ ctl' = Token(args[3], ctl.args, ctl.depth)
                  /\ stack' = Push([k |-> "trim"])
        ELSE ctl' = Ret("") /\ stack' = stack
  /\ UNCHANGED <<registry, api>>

\* dnl gives nothing
ExpandDnl ==
  /\ Tick
  /\ ctl.mode = "call" /\ ctl.call.name = "dnl"
  /\ ctl' = Ret("")
  /\ UNCHANGED <<registry, stack, api>>

(***************************************************************************)
(* expand_macro_call: any other name                                       *)
(***************************************************************************)
\* after expand_arguments: the body at depth + 1, then its rescan, when the
\* name is in the registry; the call as text otherwise
LookUp(name, expanded_args, depth, rest) ==
  IF is_defined(registry, name)
  THEN /\ ctl' = Tokens(registry[name], expanded_args, depth + 1)
       /\ stack' = <<[k |-> "rescan", depth |-> depth + 1]>> \o rest
  ELSE /\ ctl' = Ret(unknown_macro(name, expanded_args))
       /\ stack' = rest

\* expand_arguments at the next argument, or LookUp after the last
ArgumentsAt(name, todo, expanded_args, parent_args, depth, rest) ==
  IF Len(todo) = 0 THEN LookUp(name, expanded_args, depth, rest)
  ELSE /\ ctl' = Argument(Head(todo), parent_args, depth)
       /\ stack' = <<[k |-> "arguments", name |-> name, todo |-> Tail(todo),
                      result |-> expanded_args, parent_args |-> parent_args,
                      depth |-> depth]>> \o rest

\* the name is looked up before the arguments are expanded: a name that is
\* not in the registry then is given back at once
ExpandUserMacro_lookup_first ==
  /\ Tick
  /\ ctl.mode = "call" /\ ctl.call.name \notin Builtins
  /\ IF is_defined(registry, ctl.call.name)
     THEN ArgumentsAt(ctl.call.name, ctl.call.args, <<>>, ctl.args, ctl.depth,
                      stack)
     ELSE ctl' = Ret(ctl.call.name) /\ stack' = stack
  /\ UNCHANGED <<registry, api>>

ExpandUserMacro ==
  /\ Tick
  /\ ctl.mode = "call" /\ ctl.call.name \notin Builtins
  /\ ArgumentsAt(ctl.call.name, ctl.call.args, <<>>, ctl.args, ctl.depth, stack)
  /\ UNCHANGED <<registry, api>>

\* result.push(..) of expand_arguments
ArgumentsNext ==
  /\ Tick
  /\ Returning("arguments")
  /\ LET f == Head(stack) IN
     ArgumentsAt(f.name, f.todo, Append(f.result, ctl.out), f.parent_args,
                 f.depth, Tail(stack))
  /\ UNCHANGED <<registry, api>>

\* an argument that is a call of a defined macro is passed on as its name
ExpandArgument_opaque ==
  /\ Tick
  /\ ctl.mode = "argument"
  /\ LET arg == ctl.token IN
     CASE arg.type = "MacroCall" ->
            IF arg.name \in Builtins THEN ctl' = Call(arg, ctl.args, ctl.depth)
            ELSE IF is_defined(registry, arg.name) THEN ctl' = Ret(arg.name)
            ELSE ctl' = Token(arg, ctl.args, ctl.depth)
       [] arg.type = "Group" ->
            IF IsQuoted(arg.lexeme)
            THEN ctl' = Ret(StripQuotes(arg.lexeme))
            ELSE ctl' = Tokens(arg.tokens, ctl.args, ctl.depth)
       [] OTHER -> ctl' = Token(arg, ctl.args, ctl.depth)
  /\ UNCHANGED <<registry, stack, api>>

\* expand_argument
ExpandArgument ==
  /\ Tick
  /\ ctl.mode = "argument"
  /\ LET arg == ctl.token IN
     CASE arg.type = "MacroCall" ->
            IF arg.name \in Builtins \/ is_defined(registry, arg.name)
            THEN ctl' = Call(arg, ctl.args, ctl.depth)
            ELSE ctl' = Token(arg, ctl.args, ctl.depth)
       [] arg.type = "Group" ->
            IF IsQuoted(arg.lexeme)
            THEN ctl' = Ret(StripQuotes(arg.lexeme))
            ELSE ctl' = Tokens(arg.tokens, ctl.args, ctl.depth)
       [] OTHER -> ctl' = Token(arg, ctl.args, ctl.depth)
  /\ UNCHANGED <<registry, stack, api>>

\* the body's text is returned as it is
Rescan_verbatim ==
  /\ Tick
  /\ Returning("rescan")
  /\ ctl' = Ret(ctl.out)
  /\ stack' = Tail(stack)
  /\ UNCHANGED <<registry, api>>

\* rescan: the body's text is parsed and expanded with no arguments bound;
\* text that does not parse is returned as it is
Rescan ==
  /\ Tick
  /\ Returning("rescan")
  /\ LET depth == Head(stack).depth
         p == parse_input(ctl.out)
     IN IF depth_exceeded(depth) THEN Fail(DepthExceeded)
        ELSE IF p.ok
             THEN ctl' = Tokens(p.tokens, <<>>, depth) /\ stack' = Tail(stack)
        ELSE ctl' = Ret(ctl.out) /\ stack' = Tail(stack)
  /\ UNCHANGED <<registry, api>>

(***************************************************************************)
(* The public calls                                                        *)
(***************************************************************************)
\* MacroRegistry::define called for each pair of a list, on a new registry
RECURSIVE RegistryOf(_)
RegistryOf(defs) ==
  IF Len(defs) = 0 THEN EmptyRegistry
  ELSE define(RegistryOf(SubSeq(defs, 1, Len(defs) - 1)),
              defs[Len(defs)][1], defs[Len(defs)][2])

\* bodies given to MacroRegistry::define, built from tokens as the tests do
BarBody == <<Literal("bar")>>

SelfCallBody == <<MacroCall("f", <<>>)>>

SelfTextBody == <<Literal("r")>>

WrapBody == <<Literal("["), Positional(1), Literal("|"), Positional(2), Literal("]")>>

GroupBody ==
  <<Group("$2$0$3-$1",
          <<Positional(2), Positional(0), Positional(3), Literal("-"),
            Positional(1)>>)>>

QuotedBody == <<Group("`$1'", <<Positional(1)>>), Literal("!")>>

\* a literal whose text opens a quote that is never closed
UnclosedBody == <<Literal(OpenQuote \o "a")>>

\* a chain of user macros one longer than max_depth allows: each calls the
\* next, the last holds a literal
ChainLen == max_depth + 1

DigitText(d) == SubSeq("0123456789", d + 1, d + 1)

RECURSIVE NatText(_)
\* usize::to_string
NatText(n) ==
  IF n < 10 THEN DigitText(n) ELSE NatText(n \div 10) \o DigitText(n % 10)

ChainName(k) == "c" \o NatText(k)

ChainBody(k) ==
  IF k < ChainLen THEN <<MacroCall(ChainName(k + 1), <<>>)>>
  ELSE <<Literal("end")>>

\* MacroRegistry::define called for each macro of the chain
ChainRegistry ==
  [name \in {ChainName(k) : k \in 1..ChainLen} |->
     ChainBody(CHOOSE k \in 1..ChainLen : ChainName(k) = name)]

\* the registries an expander is constructed with (Expander::new)
Registries ==
  {RegistryOf(<<>>), ChainRegistry,
   RegistryOf(<<<<"foo", BarBody>>, <<"f", SelfCallBody>>,
                <<"r", SelfTextBody>>, <<"w", WrapBody>>, <<"wg", GroupBody>>,
                <<"wq", QuotedBody>>, <<"u", UnclosedBody>>>>)}

\* the texts given to Expander::expand
DefineInputs ==
  {"define(`foo', `bar')", "define(`foo', `BAR')", "define(`baz', `foo qux')",
   "define(` foo ', `BAR', extra)", "define(ifdef(`foo', `baz', `foo'), `BAR')",
   "define(`baz', define(`foo', `BAR'))", "define(ifdef(`f', f, `foo'), `BAR')",
   "define", "define(foo)", "define(f)", "define(define(`foo', `BAR'))"}

QuotedContents ==
  {"foo", "define(`foo', `BAR')", " f `baz' $1 ", "w(foo)"}

QuotedInputs == {OpenQuote \o x \o CloseQuote : x \in QuotedContents}

CallInputs ==
  {"baz", "f", "r", "hello foo world", "hello world", "g(a, b)", "g(foo)",
   "g(`x y',b)", "g(f)", "w(World)", "w", "w(a, b, c)", "wg(a, b)", "wg(a)",
   "wq(World)", "w(foo)", "w(foo, define(`foo', `BAR'))",
   "w(define(`foo', `BAR'), foo)", "g(define(`foo', `BAR'), foo)",
   "w(`foo')", "u", "foo(define(`foo', `BAR'))",
   "c1", "c2", "ifelse(a, a, g(x c2))"}

IfelseInputs ==
  {"ifelse(a, a, hello world, nello world)",
   "ifelse(a, b, hello world, nello world)",
   "ifelse(a, b, x, c, c, y, z)", "ifelse(a, b, x, c, d, y, z)",
   "ifelse(foo, bar, yes, no)", "ifelse( a , `a ', ` yes ', no)",
   "ifelse(a, a, yes, define(`foo', `BAR'))",
   "ifelse(a, a, yes, define(`foo', `BAR'), b, c)",
   "ifelse(a)", "ifelse(a, b)", "ifelse(a, b, c)", "ifelse(a, b, c, d)",
   "ifelse(a, b, c, d, e)", "ifelse(a, b, c, d, e, g)"}

IfdefInputs ==
  {"ifdef(`foo', `yes', `no')", "ifdef(foo, yes, no)", "ifdef(f, yes, no)",
   "ifdef(` foo ', yes)", "ifdef(foo)",
   "ifdef(`foo', define(`baz', `foo qux'), define(`foo', `BAR'))",
   "ifdef(define(`foo', `BAR'), yes, no)", "ifdef", "dnl"}

Inputs ==
  DefineInputs \cup QuotedInputs \cup CallInputs \cup IfelseInputs
    \cup IfdefInputs

\* Expander::expand: a text that does not parse is an error
Expand(input) ==
  /\ ~Busy /\ ~reader.open
  /\ LET p == parse_input(input) IN
     IF p.ok THEN ctl' = Tokens(p.tokens, <<>>, 0)
     ELSE ctl' = Done(FALSE, ParseError)
  /\ api' = [op |-> "expand", input |-> input, pre |-> registry]
  /\ steps' = 0
  /\ UNCHANGED <<registry, stack, reader>>

\* the outermost expand_tokens_with_depth returns to the caller of expand
Finish ==
  /\ Tick
  /\ ctl.mode = "ret" /\ Len(stack) = 0
  /\ ctl' = Done(TRUE, ctl.out)
  /\ UNCHANGED <<registry, stack, api>>

\* the sources given to MacroRegistry::load: two defines; a define and a call
\* of f; a define and a quote that is never closed
LoadInputs ==
  {"define(`foo', `BAR') define(`baz', `foo qux')", "define(`foo', `BAR') f",
   "define(`foo', `BAR') " \o OpenQuote \o "x"}

\* MacroRegistry::load, up to the call of expand: the source is expanded by
\* a new expander that holds a clone of the registry
Load(source) ==
  /\ ~Busy /\ ~reader.open /\ api.op \in {"new", "loaded"}
  /\ LET p == parse_input(source) IN
     IF p.ok THEN ctl' = Tokens(p.tokens, <<>>, 0)
     ELSE ctl' = Done(FALSE, ParseError)
  /\ api' = [op |-> "load", input |-> source, pre |-> registry]
  /\ steps' = 0
  /\ UNCHANGED <<registry, stack, reader>>

\* the expander's registry is kept whatever expand returned
LoadReturn_in_place ==
  /\ ctl.mode = "done" /\ api.op = "load"
  /\ ctl' = IF ctl.ok THEN Done(TRUE, "") ELSE ctl
  /\ api' = [api EXCEPT !.op = "loaded"]
  /\ UNCHANGED <<registry, stack, steps, reader>>

\* MacroRegistry::load after expand: on Ok the registry becomes the
\* expander's, on Err the ? returns and the registry is the one before
LoadReturn ==
  /\ ctl.mode = "done" /\ api.op = "load"
  /\ registry' = IF ctl.ok THEN registry ELSE api.pre
  /\ ctl' = IF ctl.ok THEN Done(TRUE, "") ELSE ctl
  /\ api' = [api EXCEPT !.op = "loaded"]
  /\ UNCHANGED <<stack, steps, reader>>

(***************************************************************************)
(* ExpandingReader.  The fields of the struct, and with them what the      *)
(* reads so far did: source is the text the inner reader was made of,      *)
(* expands counts the calls of expand, out is all the bytes the reads      *)
(* returned, len, ret and n are the buffer length, the result and the byte *)
(* count of the last read.                                                 *)
(***************************************************************************)
NoReader ==
  [open |-> FALSE, inner |-> "", registry |-> EmptyRegistry, buffer |-> "",
   buffer_pos |-> 0, done |-> FALSE, source |-> "", expands |-> 0,
   out |-> "", len |-> 0, ret |-> "none", n |-> 0]

\* the texts behind the inner reader
ReaderSources == {"hello foo world", "f", "dnl"}

\* the lengths of the buffers given to read
ReadLens == {0, 4, 16}

\* ExpandingReader::new(inner, registry): the registry moves into the reader
NewReader(source) ==
  /\ ctl.mode = "idle" /\ ~reader.open
  /\ reader' = [NoReader EXCEPT !.open = TRUE, !.inner = source,
                                !.registry = registry, !.source = source]
  /\ UNCHANGED <<registry, ctl, stack, api, steps>>

\* read, from the copy on: Ok(0) at the end of the buffer, otherwise the
\* next min(available, buf.len()) bytes
Serve(r, len) ==
  LET available == Len(r.buffer) - r.buffer_pos
      to_copy == IF available < len THEN available ELSE len
  IN IF r.buffer_pos >= Len(r.buffer)
     THEN [r EXCEPT !.len = len, !.ret = "ok", !.n = 0]
     ELSE [r EXCEPT !.len = len, !.ret = "ok", !.n = to_copy,
                    !.out = @ \o SubSeq(r.buffer, r.buffer_pos + 1,
                                        r.buffer_pos + to_copy),
                    !.buffer_pos = @ + to_copy]

\* read(buf): with an empty buffer and done not set, fill_buffer reads all
\* the inner reader still holds and expands it in a new expander that holds
\* a clone of the registry; otherwise the bytes are served at once
Read(len) ==
  /\ reader.open /\ ~Busy
  /\ IF reader.buffer_pos >= Len(reader.buffer) /\ ~reader.done
     THEN /\ LET p == parse_input(reader.inner) IN
             IF p.ok THEN ctl' = Tokens(p.tokens, <<>>, 0)
             ELSE ctl' = Done(FALSE, ParseError)
          /\ api' = [op |-> "read", input |-> reader.inner,
                     pre |-> reader.registry]
          /\ registry' = reader.registry
          /\ steps' = 0
          /\ reader' = [reader EXCEPT !.inner = "", !.expands = @ + 1,
                                      !.len = len]
          /\ UNCHANGED stack
     ELSE /\ reader' = Serve(reader, len)
          /\ UNCHANGED <<registry, ctl, stack, api, steps>>

\* fill_buffer after expand: on Ok the output is the buffer and done is
\* set, and read goes on to the copy; on Err read returns the error and
\* done stays unset.  The expander and its registry are dropped.
ReadReturn ==
  /\ ctl.mode = "done" /\ api.op = "read"
  /\ reader' =
       IF ctl.ok
       THEN Serve([reader EXCEPT !.buffer = ctl.out, !.buffer_pos = 0,
                                 !.done = TRUE], reader.len)
       ELSE [reader EXCEPT !.ret = "err", !.n = 0]
  /\ registry' = reader.registry
  /\ api' = [api EXCEPT !.op = "read_done"]
  /\ UNCHANGED <<ctl, stack, steps>>

\* a registry built with MacroRegistry::define: nothing has been run yet
Init ==
  /\ registry \in Registries
  /\ ctl = Idle
  /\ stack = <<>>
  /\ api = [op |-> "new", input |-> "", pre |-> registry]
  /\ steps = 0
  /\ reader = NoReader

Step ==
  \/ ExpandTokensWithDepth
  \/ TokensNext
  \/ ExpandTokenMacroCall
  \/ ExpandTokenPositional
  \/ ExpandTokenLiteral
  \/ ExpandTokenGroup
  \/ ExpandDefine
  \/ DefineStore
  \/ ExpandIfelse
  \/ IfelseFirst
  \/ IfelseSecond
  \/ TrimResult
  \/ ExpandIfdef
  \/ ExpandDnl
  \/ ExpandUserMacro
  \/ ArgumentsNext
  \/ ExpandArgument
  \/ Rescan
  \/ Finish

Next ==
  \/ \E input \in Inputs : Expand(input)
  \/ \E source \in LoadInputs : Load(source)
  \/ LoadReturn
  \/ \E source \in ReaderSources : NewReader(source)
  \/ \E len \in ReadLens : Read(len)
  \/ ReadReturn
  \/ Step

Spec == Init /\ [][Next]_vars

(***************************************************************************)
(* Properties                                                              *)
(***************************************************************************)
\* expand(input) has returned
DoneExpand(input) ==
  ctl.mode = "done" /\ api.op = "expand" /\ api.input = input

Has(reg, name, body) == name \in DOMAIN reg /\ reg[name] = body

CallBody(name) == <<MacroCall(name, <<>>)>>

\* the text a call of foo gives under the bodies foo is given here
FooText(reg) ==
  IF "foo" \notin DOMAIN reg THEN "foo"
  ELSE IF reg["foo"] = CallBody("BAR") THEN "BAR"
  ELSE "bar"

\* reg changed at key only, which holds body
DefinedIn(reg, pre, key, body) ==
  /\ DOMAIN reg = DOMAIN pre \cup {key}
  /\ reg[key] = body
  /\ \A k \in DOMAIN pre \ {key} : reg[k] = pre[k]

(* C1 *)
\* calls of macros whose body invokes the macro itself: as a call token
\* (f) and as text that is a call when rescanned (r)
SelfCalls == {[input |-> "f", name |-> "f"], [input |-> "r", name |-> "r"]}

SelfInvokes(reg, name) ==
  name \in DOMAIN reg /\ reg[name] \in {CallBody(name), <<Literal(name)>>}

\* C1: expanding a call of a macro whose body invokes that macro
\* unconditionally ends (within MaxSteps steps), and ends with the
\* depth-exceeded error, never with an output
C1_SelfRecursionFails ==
  \A c \in SelfCalls :
    api.op = "expand" /\ api.input = c.input /\ SelfInvokes(api.pre, c.name)
      => /\ Running => steps < MaxSteps
         /\ ctl.mode = "done" => ctl = Done(FALSE, DepthExceeded)

C1_Witness ==
  /\ DoneExpand("r") /\ Has(api.pre, "r", SelfTextBody)
  /\ ctl = Done(FALSE, DepthExceeded)

(* C2 *)
\* C2: expanding a top-level quoted group gives its content, no macro named
\* in it is expanded and the registry is unchanged
C2_QuotedGroupIsLiteral ==
  \A x \in QuotedContents :
    DoneExpand(OpenQuote \o x \o CloseQuote)
      => ctl = Done(TRUE, x) /\ registry = api.pre

C2_Witness ==
  /\ DoneExpand("`define(`foo', `BAR')'")
  /\ Has(api.pre, "foo", BarBody)
  /\ ctl.out = "define(`foo', `BAR')"

(* C3 *)
BazBody == <<MacroCall("foo", <<>>), Literal(" "), MacroCall("qux", <<>>)>>

DefineFooCall ==
  MacroCall("define",
            <<Group("`foo'", CallBody("foo")), Group("`BAR'", CallBody("BAR"))>>)

\* define calls: the key argument 0 expands to under the registry pre (fails:
\* its expansion fails), and the raw tokens of argument 1
DefineCases(pre) ==
  {[input |-> "define(`foo', `bar')", fails |-> FALSE, key |-> "foo",
    body |-> CallBody("bar")],
   [input |-> "define(`foo', `BAR')", fails |-> FALSE, key |-> "foo",
    body |-> CallBody("BAR")],
   [input |-> "define(`baz', `foo qux')", fails |-> FALSE, key |-> "baz",
    body |-> BazBody],
   [input |-> "define(` foo ', `BAR', extra)", fails |-> FALSE, key |-> "foo",
    body |-> CallBody("BAR")],
   [input |-> "define(ifdef(`foo', `baz', `foo'), `BAR')", fails |-> FALSE,
    key |-> IF "foo" \in DOMAIN pre THEN "baz" ELSE "foo",
    body |-> CallBody("BAR")],
   [input |-> "define(`baz', define(`foo', `BAR'))", fails |-> FALSE,
    key |-> "baz", body |-> <<DefineFooCall>>],
   [input |-> "define(ifdef(`f', f, `foo'), `BAR')",
    fails |-> SelfInvokes(pre, "f"), key |-> "foo", body |-> CallBody("BAR")]}

\* C3: a define call with two arguments or more gives empty output and
\* stores the raw tokens of argument 1 under the trimmed expansion of
\* argument 0, replacing an earlier entry; argument 1 is not expanded
\* (when argument 0 has no expansion, the call fails and stores nothing)
C3_DefineStoresRawBody ==
  \A c \in DefineCases(api.pre) :
    DoneExpand(c.input)
      => IF c.fails
         THEN ctl = Done(FALSE, DepthExceeded) /\ registry = api.pre
         ELSE /\ ctl = Done(TRUE, "")
              /\ DefinedIn(registry, api.pre, c.key, c.body)
              /\ is_defined(registry, c.key)

C3_Witness ==
  /\ DoneExpand("define(`baz', define(`foo', `BAR'))")
  /\ Has(api.pre, "baz", BazBody) /\ Has(api.pre, "foo", BarBody)
  /\ Has(registry, "baz", <<DefineFooCall>>) /\ Has(registry, "foo", BarBody)

(* C4 *)
\* C4: a call of baz, defined as `foo qux', gives what foo is defined as
\* when baz is called, whatever foo was when baz was defined
C4_BodyResolvedAtCallTime ==
  DoneExpand("baz") /\ "baz" \in DOMAIN api.pre
    /\ api.pre["baz"] \notin {CallBody("BAR"), <<DefineFooCall>>}
    => ctl = Done(TRUE, FooText(api.pre) \o " qux")

C4_Witness ==
  /\ DoneExpand("baz") /\ Has(api.pre, "baz", BazBody)
  /\ Has(api.pre, "foo", CallBody("BAR"))
  /\ ctl.out = "BAR qux"

(* C5 *)
\* the n-th of the argument strings of a call, nothing when there is none
NthOrEmpty(n, args) == IF n \in 1..Len(args) THEN args[n] ELSE ""

RECURSIVE BodyText(_, _, _)
\* the text of body tokens (literals, positional references and groups of
\* them) with every reference replaced by its argument string; in a quoted
\* group the references are replaced as well when inQuotes is TRUE, and give
\* nothing otherwise
BodyText(tokens, args, inQuotes) ==
  IF Len(tokens) = 0 THEN ""
  ELSE LET t == Head(tokens)
           text ==
             CASE t.type = "Literal" -> t.s
               [] t.type = "Positional" -> NthOrEmpty(t.n, args)
               [] OTHER ->
                    IF IsQuoted(t.lexeme) /\ ~inQuotes
                    THEN BodyText(t.tokens, <<>>, inQuotes)
                    ELSE BodyText(t.tokens, args, inQuotes)
       IN text \o BodyText(Tail(tokens), args, inQuotes)

\* calls of user macros: the body the macro holds and the argument strings
PositionalCases ==
  {[input |-> "w(World)", name |-> "w", body |-> WrapBody, args |-> <<"World">>],
   [input |-> "w", name |-> "w", body |-> WrapBody, args |-> <<>>],
   [input |-> "w(a, b, c)", name |-> "w", body |-> WrapBody,
    args |-> <<"a", "b", "c">>],
   [input |-> "wg(a, b)", name |-> "wg", body |-> GroupBody,
    args |-> <<"a", "b">>],
   [input |-> "wg(a)", name |-> "wg", body |-> GroupBody, args |-> <<"a">>],
   [input |-> "wq(World)", name |-> "wq", body |-> QuotedBody,
    args |-> <<"World">>]}

\* C5 as stated: every positional reference of the body, at any nesting
\* level, groups included, is replaced by the argument string of the call
C5_PositionalAtAnyLevel ==
  \A c \in PositionalCases :
    DoneExpand(c.input) /\ Has(api.pre, c.name, c.body)
      => ctl = Done(TRUE, BodyText(c.body, c.args, TRUE))

\* C5: every positional reference of the body, at the top level of the body
\* and in its unquoted groups, is replaced by the n-th argument string of
\* the call, by nothing when n is 0 or above the number of arguments; a
\* reference in a quoted group of the body is not replaced by the argument
\* and gives nothing; the call never fails
C5_PositionalOutsideQuotes ==
  \A c \in PositionalCases :
    DoneExpand(c.input) /\ Has(api.pre, c.name, c.body)
      => ctl = Done(TRUE, BodyText(c.body, c.args, FALSE))

C5_Witness ==
  /\ DoneExpand("wq(World)") /\ Has(api.pre, "wq", QuotedBody)
  /\ ctl = Done(TRUE, "!")

(* C6 *)
\* the registry after define(`foo', `BAR')
WithFooBAR(reg) == define(reg, "foo", CallBody("BAR"))

\* calls of w, whose body is [$1|$2], with arguments that are calls: the
\* output and the registry afterwards, from the registry pre before
EagerCases(pre) ==
  {[input |-> "w(foo)", out |-> "[" \o FooText(pre) \o "|]", reg |-> pre],
   [input |-> "w(foo, define(`foo', `BAR'))",
    out |-> "[" \o FooText(pre) \o "|]", reg |-> WithFooBAR(pre)],
   [input |-> "w(define(`foo', `BAR'), foo)", out |-> "[|BAR]",
    reg |-> WithFooBAR(pre)]}

\* C6: the arguments of a call of a user macro are expanded in source order
\* before the body is substituted; an argument that is a call of a defined
\* macro gives that macro's expansion at that moment, and that string is
\* what the positional reference receives
C6_ArgumentsEagerInOrder ==
  \A c \in EagerCases(api.pre) :
    DoneExpand(c.input) /\ Has(api.pre, "w", WrapBody)
      => ctl = Done(TRUE, c.out) /\ registry = c.reg

C6_Witness ==
  /\ DoneExpand("w(foo, define(`foo', `BAR'))")
  /\ Has(api.pre, "w", WrapBody) /\ Has(api.pre, "foo", BarBody)
  /\ ctl = Done(TRUE, "[bar|]") /\ Has(registry, "foo", CallBody("BAR"))

(* C7 *)
\* ifelse calls in which a triple matches or an else argument follows the
\* triples: the trimmed expansion of the selected argument
IfelseCases(pre) ==
  {[input |-> "ifelse(a, a, hello world, nello world)", out |-> "hello world"],
   [input |-> "ifelse(a, b, hello world, nello world)", out |-> "nello world"],
   [input |-> "ifelse(a, b, x, c, c, y, z)", out |-> "y"],
   [input |-> "ifelse(a, b, x, c, d, y, z)", out |-> "z"],
   [input |-> "ifelse(foo, bar, yes, no)",
    out |-> IF FooText(pre) = "bar" THEN "yes" ELSE "no"],
   [input |-> "ifelse( a , `a ', ` yes ', no)", out |-> "yes"],
   [input |-> "ifelse(a, a, yes, define(`foo', `BAR'))", out |-> "yes"],
   [input |-> "ifelse(a, a, yes, define(`foo', `BAR'), b, c)", out |-> "yes"]}

\* C7: ifelse takes its arguments in triples from index 0; the result is the
\* trimmed expansion of the third member of the first triple whose first two
\* members are equal after trimming, of the else argument when none is; no
\* argument after the selected one is expanded, so the registry is unchanged
C7_IfelseFirstMatchingTriple ==
  \A c \in IfelseCases(api.pre) :
    DoneExpand(c.input) => ctl = Done(TRUE, c.out) /\ registry = api.pre

C7_Witness ==
  /\ DoneExpand("ifelse(a, a, yes, define(`foo', `BAR'), b, c)")
  /\ Has(api.pre, "foo", BarBody)
  /\ ctl = Done(TRUE, "yes") /\ Has(registry, "foo", BarBody)

(* C8 *)
\* ifelse calls with 1 to 6 arguments in which no triple matches: the
\* trimmed expansion of the final argument, nothing for 3 and 6 arguments
FinalArgumentCases ==
  {[input |-> "ifelse(a)", out |-> "a"],
   [input |-> "ifelse(a, b)", out |-> "b"],
   [input |-> "ifelse(a, b, c)", out |-> ""],
   [input |-> "ifelse(a, b, c, d)", out |-> "d"],
   [input |-> "ifelse(a, b, c, d, e)", out |-> "e"],
   [input |-> "ifelse(a, b, c, d, e, g)", out |-> ""]}

\* C8 as stated: with no matching triple the result is the trimmed
\* expansion of the final argument when arguments are left over after the
\* last full triple, and nothing when none is left over
C8_ElseIsFinalArgument ==
  \A c \in FinalArgumentCases :
    DoneExpand(c.input) => ctl = Done(TRUE, c.out)

(* C9 *)
\* ifdef calls: the name looked up, the output when it is defined and when
\* it is not, and the registry afterwards
IfdefCases(pre) ==
  {[input |-> "ifdef(`foo', `yes', `no')", name |-> "foo", then |-> "yes",
    else |-> "no", thenReg |-> pre, elseReg |-> pre],
   [input |-> "ifdef(foo, yes, no)", name |-> "foo", then |-> "yes",
    else |-> "no", thenReg |-> pre, elseReg |-> pre],
   [input |-> "ifdef(f, yes, no)", name |-> "f", then |-> "yes",
    else |-> "no", thenReg |-> pre, elseReg |-> pre],
   [input |-> "ifdef(` foo ', yes)", name |-> "foo", then |-> "yes",
    else |-> "", thenReg |-> pre, elseReg |-> pre],
   [input |-> "ifdef(foo)", name |-> "foo", then |-> "", else |-> "",
    thenReg |-> pre, elseReg |-> pre],
   [input |-> "ifdef(`foo', define(`baz', `foo qux'), define(`foo', `BAR'))",
    name |-> "foo", then |-> "", else |-> "",
    thenReg |-> define(pre, "baz", BazBody), elseReg |-> WithFooBAR(pre)],
   [input |-> "ifdef(define(`foo', `BAR'), yes, no)", name |-> "",
    then |-> "yes", else |-> "no", thenReg |-> pre, elseReg |-> pre]}

\* C9: ifdef gives the trimmed expansion of its second argument (nothing
\* when absent) exactly when the trimmed text of its first argument is a key
\* of the registry when the call is expanded, and of its third argument
\* (nothing when absent) otherwise; the first argument is not expanded and
\* the branch not selected is not expanded
C9_IfdefByRegistryKey ==
  \A c \in IfdefCases(api.pre) :
    DoneExpand(c.input)
      => IF c.name \in DOMAIN api.pre
         THEN ctl = Done(TRUE, c.then) /\ registry = c.thenReg
         ELSE ctl = Done(TRUE, c.else) /\ registry = c.elseReg

C9_Witness ==
  /\ DoneExpand("ifdef(`foo', define(`baz', `foo qux'), define(`foo', `BAR'))")
  /\ Has(api.pre, "foo", BarBody) /\ "baz" \notin DOMAIN api.pre
  /\ ctl = Done(TRUE, "")
  /\ Has(registry, "foo", BarBody) /\ Has(registry, "baz", BazBody)

(* C10 *)
\* calls of names that are no builtin and not in the registry pre: whether
\* the expansion of an argument fails, the text of the call built from the
\* expanded arguments, and the registry afterwards
UnknownCases(pre) ==
  {[input |-> "g(a, b)", name |-> "g", fails |-> FALSE, out |-> "g(a, b)",
    reg |-> pre],
   [input |-> "g(foo)", name |-> "g", fails |-> FALSE,
    out |-> "g(" \o FooText(pre) \o ")", reg |-> pre],
   [input |-> "g(`x y',b)", name |-> "g", fails |-> FALSE, out |-> "g(x y, b)",
    reg |-> pre],
   [input |-> "g(define(`foo', `BAR'), foo)", name |-> "g", fails |-> FALSE,
    out |-> "g(, BAR)", reg |-> WithFooBAR(pre)],
   [input |-> "g(f)", name |-> "g", fails |-> SelfInvokes(pre, "f"),
    out |-> "g(f)", reg |-> pre],
   [input |-> "baz", name |-> "baz", fails |-> FALSE, out |-> "baz",
    reg |-> pre],
   [input |-> "w(a, b, c)", name |-> "w", fails |-> FALSE,
    out |-> "w(a, b, c)", reg |-> pre]}

\* C10 as stated: a call of a name that is no builtin and not in the
\* registry never fails; its output is the name, followed by the expanded
\* arguments in parentheses when it has arguments
C10_UnknownCallNeverFails ==
  \A c \in UnknownCases(api.pre) :
    DoneExpand(c.input) /\ c.name \notin DOMAIN api.pre
      => ctl.ok /\ (~c.fails => ctl.out = c.out /\ registry = c.reg)

\* C10: a call of a name that is no builtin and not in the registry fails
\* only when the expansion of one of its arguments fails, with that error;
\* otherwise its output is the name, followed in parentheses by the expanded
\* arguments joined with a comma and a space when it has arguments, and the
\* registry changes only by what expanding the arguments does
C10_UnknownCallReproduced ==
  \A c \in UnknownCases(api.pre) :
    DoneExpand(c.input) /\ c.name \notin DOMAIN api.pre
      => IF c.fails
         THEN ctl = Done(FALSE, DepthExceeded) /\ registry = c.reg
         ELSE ctl = Done(TRUE, c.out) /\ registry = c.reg

C10_Witness ==
  /\ DoneExpand("g(define(`foo', `BAR'), foo)")
  /\ Has(api.pre, "foo", BarBody) /\ "g" \notin DOMAIN api.pre
  /\ ctl = Done(TRUE, "g(, BAR)") /\ Has(registry, "foo", CallBody("BAR"))

(* C11 *)
\* define calls with fewer than two arguments and an ifdef call with none
TooFewArguments ==
  {"define", "define(foo)", "define(f)", "define(define(`foo', `BAR'))",
   "ifdef"}

\* C11: a define call with fewer than two arguments and an ifdef call with
\* no arguments give empty output and no error and leave the registry as it
\* was; no argument is expanded
C11_TooFewArgumentsTolerated ==
  \A input \in TooFewArguments :
    DoneExpand(input) => ctl = Done(TRUE, "") /\ registry = api.pre

C11_Witness ==
  /\ DoneExpand("define(f)") /\ Has(api.pre, "f", SelfCallBody)
  /\ ctl = Done(TRUE, "") /\ registry = api.pre

(* C13 *)
\* calls of user macros whose body text holds a macro name, an unclosed
\* quote, or a positional reference: the output
RescanCases(pre) ==
  {[input |-> "w(`foo')", name |-> "w", body |-> WrapBody,
    out |-> "[" \o FooText(pre) \o "|]"],
   [input |-> "u", name |-> "u", body |-> UnclosedBody,
    out |-> OpenQuote \o "a"],
   [input |-> "wq(World)", name |-> "wq", body |-> QuotedBody, out |-> "!"]}

\* C13: the result of a call of a defined user macro is the rescan of its
\* body text, parsed and expanded again with no positional arguments bound:
\* a macro name that is only in the generated text (passed in quoted) is
\* expanded when it is defined; text that cannot be parsed is given back
\* unchanged and without an error
C13_BodyTextRescanned ==
  \A c \in RescanCases(api.pre) :
    DoneExpand(c.input) /\ Has(api.pre, c.name, c.body)
      => ctl = Done(TRUE, c.out) /\ registry = api.pre

C13_Witness ==
  /\ DoneExpand("w(`foo')") /\ Has(api.pre, "w", WrapBody)
  /\ Has(api.pre, "foo", BarBody)
  /\ ctl = Done(TRUE, "[bar|]")

(* C16 *)
\* C16: the arguments of a call of a name that is no builtin are expanded
\* before the name is looked up: a define of that name among the arguments
\* decides the call, which expands the body just stored, whether the name
\* was defined before or not
C16_ArgumentsBeforeLookup ==
  DoneExpand("foo(define(`foo', `BAR'))")
    => ctl = Done(TRUE, "BAR") /\ registry = WithFooBAR(api.pre)

C16_Witness ==
  /\ DoneExpand("foo(define(`foo', `BAR'))") /\ "foo" \notin DOMAIN api.pre
  /\ ctl = Done(TRUE, "BAR") /\ Has(registry, "foo", CallBody("BAR"))

(* C14 *)
\* reg holds the chain c1 .. c101
HoldsChain(reg) ==
  \A k \in 1..ChainLen : Has(reg, ChainName(k), ChainBody(k))

\* calls into the chain: c2 enters max_depth bodies, c1 one more; the third
\* reaches c2 through a builtin's argument, a call's argument and a group
ChainCases ==
  {[input |-> "c2", ok |-> TRUE, out |-> "end"],
   [input |-> "c1", ok |-> FALSE, out |-> DepthExceeded],
   [input |-> "ifelse(a, a, g(x c2))", ok |-> TRUE, out |-> "g(x end)"]}

\* C14: the depth counter is 0 at the top level and grows by one for each
\* user macro body entered, not for groups, builtin arguments or call
\* arguments; expansion fails with the depth error exactly when it would
\* pass max_depth: a chain of 100 user macros expands, a chain of 101 fails
C14_DepthCountsMacroBodies ==
  /\ ctl.mode \in {"tokens", "token", "call", "argument"}
       => ctl.depth <= max_depth + 1
  /\ \A c \in ChainCases :
       DoneExpand(c.input) /\ HoldsChain(api.pre)
         => ctl = Done(c.ok, c.out)

C14_Witness ==
  /\ DoneExpand("ifelse(a, a, g(x c2))") /\ HoldsChain(api.pre)
  /\ ctl = Done(TRUE, "g(x end)")

(* C15 *)
\* load(source) has returned
DoneLoad(source) == api.op = "loaded" /\ api.input = source

\* the sources loaded: whether expanding the source fails from the registry
\* pre, and the registry with every definition the source makes
LoadCases(pre) ==
  {[source |-> "define(`foo', `BAR') define(`baz', `foo qux')",
    fails |-> FALSE, reg |-> define(WithFooBAR(pre), "baz", BazBody)],
   [source |-> "define(`foo', `BAR') f", fails |-> SelfInvokes(pre, "f"),
    reg |-> WithFooBAR(pre)],
   [source |-> "define(`foo', `BAR') " \o OpenQuote \o "x", fails |-> TRUE,
    reg |-> pre]}

\* C15: when expanding the source fails, load returns the error and the
\* registry is the one before the call, whatever define calls had run; when
\* it succeeds, the registry holds every definition the source made
C15_LoadAllOrNothing ==
  \A c \in LoadCases(api.pre) :
    DoneLoad(c.source)
      => IF c.fails THEN ~ctl.ok /\ registry = api.pre
         ELSE ctl = Done(TRUE, "") /\ registry = c.reg

C15_Witness ==
  /\ DoneLoad("define(`foo', `BAR') f") /\ Has(api.pre, "foo", BarBody)
  /\ ctl = Done(FALSE, DepthExceeded) /\ Has(registry, "foo", BarBody)

(* C12 *)
\* a read of the reader has returned
DoneRead == reader.open /\ reader.ret # "none" /\ ~Busy

\* the sources read: whether expanding the source fails from the registry
\* reg of the reader, and its expansion
ReaderCases(reg) ==
  {[source |-> "hello foo world", fails |-> FALSE,
    out |-> "hello " \o FooText(reg) \o " world"],
   [source |-> "dnl", fails |-> FALSE, out |-> ""],
   [source |-> "f", fails |-> SelfInvokes(reg, "f"), out |-> "f"]}

\* what a read of len bytes returns when `before' bytes of text were
\* returned already
NextSlice(text, before, len) ==
  IF Len(text) - before < len THEN Len(text) - before ELSE len

\* when the expansion succeeds: the bytes returned are consecutive slices
\* of expand(source), each as long as the buffer allows, 0 after the last
ServesExpansion(c) ==
  /\ reader.ret = "ok"
  /\ reader.out = SubSeq(c.out, 1, Len(reader.out))
  /\ reader.n = NextSlice(c.out, Len(reader.out) - reader.n, reader.len)

\* C12: whatever reads are made, also after a read that returned an error,
\* the source is consumed and expand is run once only, on the first read;
\* when the expansion succeeds the reads return consecutive slices of
\* expand(source) and 0 after the last byte; when it fails the read returns
\* an error and no bytes
C12_ReaderExpandsOnce ==
  \A c \in ReaderCases(reader.registry) :
    DoneRead /\ reader.source = c.source
      => /\ reader.expands = 1 /\ reader.inner = ""
         /\ IF c.fails THEN reader.ret = "err" /\ reader.out = ""
            ELSE ServesExpansion(c)

====
